---- MODULE Spec2Model ----
(***************************************************************************)
(* Model of the CSV -> SQLite ETL of the movie dashboard                   *)
(* (etl_utils.py: load_csv_to_dataframe, extract_genres, clean_dataframe,  *)
(* save_dataframe_to_sqlite, archive_file, load_csv_to_sqlite) and of its  *)
(* query layer (sql_utils.py: run_query and the four query functions).     *)
(*                                                                         *)
(* Values.  A text is a sequence of one-character strings.  A cell of a    *)
(* DataFrame is an optional value: <<>> is the missing value (NaN / None / *)
(* NaT) and <<v>> is the value v.  A raw genres field is a sequence of     *)
(* lexical tokens of a Python literal.  A raw release_date field is a      *)
(* sequence of integers <<y, m, d>> standing for the text "y-m-d".         *)
(***************************************************************************)
EXTENDS Integers, Sequences, FiniteSets, TLC

VARIABLES
    fs_src,       \* content of the file at csv_path, or NoFile
    archive_dir,  \* TRUE iff the directory "archive" exists
    fs_arch,      \* content of archive/<base name of csv_path>, or NoFile
    table,        \* the persisted table "movies": whether it exists, and its rows
    pc,           \* position of the caller inside load_csv_to_sqlite
    df,           \* the local DataFrame df of load_csv_to_sqlite
    err,          \* the exception that ended the last run, "none" if none
    archive,      \* the archive argument of the running load_csv_to_sqlite
    pre,          \* snapshot of the files and the table when the run was called
    written,      \* source of the last store write and whether it completed
    runs,         \* number of load_csv_to_sqlite calls so far
    genre_str,    \* argument of a direct extract_genres call
    genre_ret,    \* its return value, <<"pending">> before the call returns
    q_call,       \* the last query-layer call: function, arguments, table it ran on
    q_ret,        \* what that call raised and returned
    conn_open     \* TRUE iff the last store call left its connection open

vars == <<fs_src, archive_dir, fs_arch, table, pc, df, err, archive, pre,
          written, runs, genre_str, genre_ret, q_call, q_ret, conn_open>>

\* ------------------------------------------------------------------ bounds
\* longest raw genres literal, in tokens
MaxTok == 5
\* most data rows of a CSV given to clean_dataframe
MaxRows == 2
\* most load_csv_to_sqlite calls in one behaviour
MaxRuns == 2
\* most copies of one movie in a stored table given to the queries
MaxCopies == 5

\* ------------------------------------------------------------------- texts
Null == <<>>
Some(v) == <<v>>
IsNull(c) == c = <<>>
Val(c) == c[1]

RECURSIVE LStrip(_)
LStrip(s) == IF s = <<>> THEN s
             ELSE IF Head(s) = " " THEN LStrip(Tail(s)) ELSE s

RECURSIVE RStrip(_)
RStrip(s) == IF s = <<>> THEN s
             ELSE IF s[Len(s)] = " " THEN RStrip(SubSeq(s, 1, Len(s) - 1)) ELSE s

\* str.strip(): leading and trailing whitespace removed
Strip(s) == RStrip(LStrip(s))

\* s.split("|"): the segments between the pipes; "".split("|") is [""]
RECURSIVE SplitFrom(_, _, _)
SplitFrom(s, i, cur) ==
    IF i > Len(s) THEN <<cur>>
    ELSE IF s[i] = "|" THEN <<cur>> \o SplitFrom(s, i + 1, <<>>)
    ELSE SplitFrom(s, i + 1, Append(cur, s[i]))

Split(s) == SplitFrom(s, 1, <<>>)

\* "|".join(names)
RECURSIVE Join(_)
Join(names) ==
    IF names = <<>> THEN <<>>
    ELSE IF Len(names) = 1 THEN names[1]
    ELSE names[1] \o <<"|">> \o Join(Tail(names))

\* ---------------------------------------------------------- extract_genres
\* Tokens of a raw genres literal.  An atom token is a whole dict, int or
\* str literal; "[", "]" and "," build lists (and bare tuples) of them.
DictAtoms == {"{name:A}", "{name:B}", "{name:}", "{name:5}", "{id:1}"}
Atoms == DictAtoms \cup {"7", "'x'"}
Tokens == Atoms \cup {"[", "]", ","}

\* does the dict literal carry the key "name", and what is g["name"]
DictHasName(a) == a \in {"{name:A}", "{name:B}", "{name:}", "{name:5}"}
NameIsStr(a) == a \in {"{name:A}", "{name:B}", "{name:}"}
NameOf(a) == CASE a = "{name:A}" -> <<"A">>
               [] a = "{name:B}" -> <<"B">>
               [] OTHER -> <<>>

\* Parsed Python values: an atom, or a sequence (list or tuple) of values.
AtomVal(a) == [t |-> "atom", a |-> a, items |-> <<>>]
SeqVal(items) == [t |-> "seq", a |-> "", items |-> items]
Fail == [ok |-> FALSE, v |-> AtomVal(""), next |-> 0]
Ok(v, n) == [ok |-> TRUE, v |-> v, next |-> n]

\* ast.literal_eval restricted to the token language: recursive descent.
RECURSIVE ParseExpr(_, _), ParseItems(_, _, _), ParseTuple(_, _, _)
ParseExpr(ts, i) ==
    IF i > Len(ts) THEN Fail
    ELSE IF ts[i] \in Atoms THEN Ok(AtomVal(ts[i]), i + 1)
    ELSE IF ts[i] = "[" THEN ParseItems(ts, i + 1, <<>>)
    ELSE Fail

\* after "[" or after a "," inside a list: "]" closes (trailing comma allowed)
ParseItems(ts, i, acc) ==
    IF i > Len(ts) THEN Fail
    ELSE IF ts[i] = "]" THEN Ok(SeqVal(acc), i + 1)
    ELSE LET e == ParseExpr(ts, i) IN
         IF ~e.ok \/ e.next > Len(ts) THEN Fail
         ELSE IF ts[e.next] = "]" THEN Ok(SeqVal(Append(acc, e.v)), e.next + 1)
         ELSE IF ts[e.next] = "," THEN ParseItems(ts, e.next + 1, Append(acc, e.v))
         ELSE Fail

\* after a top-level ",": a bare tuple "a, b" or "a,"
ParseTuple(ts, i, acc) ==
    IF i > Len(ts) THEN Ok(SeqVal(acc), i)
    ELSE LET e == ParseExpr(ts, i) IN
         IF ~e.ok THEN Fail
         ELSE IF e.next > Len(ts) THEN Ok(SeqVal(Append(acc, e.v)), e.next)
         ELSE IF ts[e.next] = "," THEN ParseTuple(ts, e.next + 1, Append(acc, e.v))
         ELSE Fail

\* ast.literal_eval(genre_str); a missing value (NaN) is not a string: raises
literal_eval(cell) ==
    IF IsNull(cell) THEN Fail
    ELSE LET ts == Val(cell)
             e == ParseExpr(ts, 1) IN
         IF ~e.ok THEN Fail
         ELSE IF e.next > Len(ts) THEN e
         ELSE IF ts[e.next] = "," THEN ParseTuple(ts, e.next + 1, <<e.v>>)
         ELSE Fail

\* `"name" in g` for an element g of the iterated value:
\* "yes", "no", or "raise" (TypeError: argument of type 'int' is not iterable)
InName(g) ==
    IF g.t = "seq"
    THEN "no"                       \* no str 'name' among the modelled atoms
    ELSE IF g.a \in DictAtoms THEN (IF DictHasName(g.a) THEN "yes" ELSE "no")
    ELSE IF g.a = "7" THEN "raise"
    ELSE "no"                       \* the str 'x' does not contain "name"

\* the generator g["name"] for g in genres_list if "name" in g, fed to join:
\* [ok |-> FALSE] when the test, the subscript or join raises
RECURSIVE Names(_)
Names(items) ==
    IF items = <<>> THEN [ok |-> TRUE, names |-> <<>>]
    ELSE LET g == Head(items)
             t == InName(g)
             rest == Names(Tail(items)) IN
         IF t = "raise" THEN [ok |-> FALSE, names |-> <<>>]
         ELSE IF t = "no" THEN rest
         ELSE IF ~NameIsStr(g.a) THEN [ok |-> FALSE, names |-> <<>>]
         ELSE IF ~rest.ok THEN rest
         ELSE [ok |-> TRUE, names |-> <<NameOf(g.a)>> \o rest.names]

\* what iterating the parsed value yields: the items of a list or tuple;
\* the keys of a dict; the characters of a str; an int is not iterable
extract_genres_raises(cell) ==
    LET e == literal_eval(cell) IN
    IF ~e.ok THEN "ValueError"
    ELSE IF e.v.t = "seq" THEN (IF Names(e.v.items).ok THEN "none" ELSE "TypeError")
    ELSE IF e.v.a = "7" THEN "TypeError"
    ELSE IF e.v.a \in DictAtoms /\ DictHasName(e.v.a)
         THEN "TypeError"           \* key "name" passes the test; "name"["name"] raises
    ELSE "none"

\* the try block (lines 58-59): the exception it raises, or its return value
try_body(cell) ==
    LET exc == extract_genres_raises(cell)
        e == literal_eval(cell) IN
    IF exc # "none" THEN [exc |-> exc, ret |-> Null]
    ELSE IF e.v.t = "seq" THEN [exc |-> "none", ret |-> Some(Join(Names(e.v.items).names))]
    ELSE [exc |-> "none", ret |-> Some(<<>>)]   \* no key or character passes the test

\* extract_genres without its except clause: the exception propagates
extract_genres_no_except(cell) == try_body(cell)

\* extract_genres: the bare except turns every exception into None
extract_genres(cell) ==
    LET r == try_body(cell) IN
    IF r.exc # "none" THEN [exc |-> "none", ret |-> Null] ELSE r

\* ------------------------------------------------------------- DataFrames
\* A CSV file: [cols |-> set of header names, rows |-> sequence of records
\* mapping each header to the raw text of the field].  No header at all is
\* the zero-byte file.  A DataFrame: [cols, rows], a row being
\* [idx |-> index label, c |-> function from cols to cells].
NoFile == [cols |-> {"<absent>"}, rows |-> <<>>]
NoFrame == [cols |-> {}, rows |-> <<>>]
NumericCols == {"vote_average", "vote_count"}

\* pd.read_csv: an empty field is NaN, a numeric field its number, any other
\* field (whitespace included) the text itself; index labels 0, 1, 2, ...
ReadCell(col, text) ==
    IF text = <<>> THEN Null
    ELSE IF col \in NumericCols THEN text
    ELSE Some(text)

read_csv(file) ==
    [cols |-> file.cols,
     rows |-> [i \in 1..Len(file.rows) |->
                 [idx |-> i - 1,
                  c |-> [col \in file.cols |-> ReadCell(col, file.rows[i][col])]]]]

\* load_csv_to_dataframe answering a missing file with an empty table
load_csv_no_check(file) ==
    IF file = NoFile \/ file.cols = {} THEN [exc |-> "none", df |-> NoFrame]
    ELSE [exc |-> "none", df |-> read_csv(file)]

\* load_csv_to_dataframe: FileNotFoundError unless the path exists; read_csv
\* raises EmptyDataError on a file without a header line
load_csv_to_dataframe(file) ==
    IF file = NoFile THEN [exc |-> "FileNotFoundError", df |-> NoFrame]
    ELSE IF file.cols = {} THEN [exc |-> "EmptyDataError", df |-> NoFrame]
    ELSE [exc |-> "none", df |-> read_csv(file)]

\* df.dropna(subset=...): rows with a missing value in a subset column go,
\* the others keep their index label; KeyError when a column is absent
dropna(d, subset) ==
    LET Whole(r) == \A col \in subset : ~IsNull(r.c[col]) IN
    IF ~(subset \subseteq d.cols) THEN [exc |-> "KeyError", df |-> NoFrame]
    ELSE [exc |-> "none", df |-> [cols |-> d.cols, rows |-> SelectSeq(d.rows, Whole)]]

IsLeap(y) == (y % 4 = 0 /\ y % 100 # 0) \/ y % 400 = 0
DaysIn(y, m) == IF m = 2 THEN (IF IsLeap(y) THEN 29 ELSE 28)
                ELSE IF m \in {4, 6, 9, 11} THEN 30 ELSE 31

\* pd.to_datetime(..., errors="coerce") on one cell: the date, or NaT when
\* the cell is missing or is not the text of a calendar date
to_datetime(cell) ==
    IF IsNull(cell) THEN Null
    ELSE LET t == Val(cell) IN
         IF Len(t) = 3 /\ t[2] \in 1..12 /\ t[3] >= 1 /\ t[3] <= DaysIn(t[1], t[2])
         THEN Some(t) ELSE Null

\* .dt.month taken for the year
year_is_month(cell) == IF IsNull(cell) THEN Null ELSE Some(Val(cell)[2])

\* .dt.year
year(cell) == IF IsNull(cell) THEN Null ELSE Some(Val(cell)[1])

\* df[col] = vals: the column is added or overwritten, row by row
Assign(d, col, vals) ==
    [cols |-> d.cols \cup {col},
     rows |-> [i \in 1..Len(d.rows) |->
                 [idx |-> d.rows[i].idx,
                  c |-> [k \in d.cols \cup {col} |->
                           IF k = col THEN vals[i] ELSE d.rows[i].c[k]]]]]

keep_cols == {"id", "title", "release_year", "vote_average", "vote_count",
              "popularity", "budget", "revenue", "genres"}

\* df[[col for col in keep_cols if col in df.columns]]
Project(d) ==
    [cols |-> d.cols \cap keep_cols,
     rows |-> [i \in 1..Len(d.rows) |->
                 [idx |-> d.rows[i].idx,
                  c |-> [k \in d.cols \cap keep_cols |-> d.rows[i].c[k]]]]]

\* the columns of dtype object after the projection: the text columns
ObjectCols(d) == d.cols \cap {"title", "genres"}

StripCell(cell) == IF IsNull(cell) THEN Null ELSE Some(Strip(Val(cell)))

\* for col in df.select_dtypes(include="object").columns: .str.strip()
StripObjects(d) ==
    [cols |-> d.cols,
     rows |-> [i \in 1..Len(d.rows) |->
                 [idx |-> d.rows[i].idx,
                  c |-> [k \in d.cols |->
                           IF k \in ObjectCols(d) THEN StripCell(d.rows[i].c[k])
                           ELSE d.rows[i].c[k]]]]]

\* the genres step (lines 96-99): df["genres"].apply(extract_genres); an
\* exception raised for any row would propagate out of apply
GenresStep(d) ==
    LET Out == [i \in 1..Len(d.rows) |-> extract_genres(d.rows[i].c["genres"]).ret]
        NoneOut == [i \in 1..Len(d.rows) |-> Null] IN
    IF "genres" \notin d.cols THEN [exc |-> "none", df |-> Assign(d, "genres", NoneOut)]
    ELSE IF \E i \in 1..Len(d.rows) : extract_genres(d.rows[i].c["genres"]).exc # "none"
         THEN [exc |-> "TypeError", df |-> NoFrame]
    ELSE [exc |-> "none", df |-> Assign(d, "genres", Out)]

\* the release_date / release_year step (lines 89-93)
YearStep(d) ==
    LET Parsed == [i \in 1..Len(d.rows) |-> to_datetime(d.rows[i].c["release_date"])]
        d1 == Assign(d, "release_date", Parsed)
        Year == [i \in 1..Len(d.rows) |-> year(d1.rows[i].c["release_date"])]
        NoneOut == [i \in 1..Len(d.rows) |-> Null] IN
    IF "release_date" \in d.cols
    THEN Assign(d1, "release_year", Year)
    ELSE Assign(d, "release_year", NoneOut)

\* line 109 dropping on title alone
FinalDropTitleOnly(d) == dropna(d, {"title"})

\* line 109 dropping on genres as well
FinalDropGenresToo(d) == dropna(d, {"title", "release_year", "genres"})

\* the final df.dropna(subset=["title", "release_year"]) (line 109)
FinalDrop(d) == dropna(d, {"title", "release_year"})

\* lines 85-86: rows without a title go, when there is a title column
TitleDrop(d) == IF "title" \in d.cols THEN dropna(d, {"title"}).df ELSE d

\* lines 101-109 after the genres step g: projection, then the final drop
ProjectDrop(g) == IF g.exc # "none" THEN g ELSE FinalDrop(Project(g.df))

\* lines 111-115 after the final drop r: strip, return
StripStep(r) ==
    IF r.exc # "none" THEN r ELSE [exc |-> "none", df |-> StripObjects(r.df)]

\* clean_dataframe (lines 84-115): the steps in their order; an exception
\* raised by a step ends the call
clean_dataframe(d) == StripStep(ProjectDrop(GenresStep(YearStep(TitleDrop(d)))))

\* df.to_sql(table_name, conn, if_exists="replace", index=False): the rows
\* without their index labels
NoTable == [exists |-> FALSE, rows |-> <<>>]
EmptyTable == [exists |-> TRUE, rows |-> <<>>]
to_sql(d) == [exists |-> TRUE, rows |-> [i \in 1..Len(d.rows) |-> d.rows[i].c]]

\* ------------------------------------------------------------ query layer
\* sql_utils.py.  A result table is the sequence of its rows, a row a
\* function from the selected columns to cells.  SQL leaves the order of
\* rows with equal sort keys open, so a query has a set of possible results.

\* the limit a call passes: its argument, or the default when it is omitted
ArgOr(arg, default) == IF arg = <<>> THEN default ELSE arg[1]

\* limit: int = 10 (top_10_movies, top_movies_by_genre), limit: int = 20
\* (movies_per_genre), the literal LIMIT 10 of high_rated_popular_movies
DefaultTopLimit ==
    10
DefaultGenreLimit ==
    10
DefaultGroupLimit ==
    20
HighRatedLimit ==
    10

\* column > x in place of column >= x
GT(cell, x) == ~IsNull(cell) /\ Val(cell) > x

\* column >= x in a WHERE clause: NULL passes no comparison
GE(cell, x) == ~IsNull(cell) /\ Val(cell) >= x

\* ORDER BY column: NULL sorts below every number
SortKey(cell) == IF IsNull(cell) THEN -1 ELSE Val(cell)

Range(s) == {s[i] : i \in 1..Len(s)}

RemoveOne(s, x) ==
    LET i == CHOOSE k \in 1..Len(s) : s[k] = x IN
    SubSeq(s, 1, i - 1) \o SubSeq(s, i + 1, Len(s))

\* every order in which the items of s can come out
RECURSIVE Arrangements(_)
Arrangements(s) ==
    IF s = <<>> THEN {<<>>}
    ELSE UNION {{<<x>> \o p : p \in Arrangements(RemoveOne(s, x))} : x \in Range(s)}

MaxKey(items) ==
    CHOOSE k \in {items[i].key : i \in 1..Len(items)} :
        \A j \in 1..Len(items) : items[j].key <= k

\* ORDER BY key ASC in place of DESC
RECURSIVE OrderByAsc(_)
OrderByAsc(items) ==
    IF items = <<>> THEN {<<>>}
    ELSE {b \o a :
            a \in Arrangements(SelectSeq(items, LAMBDA it : it.key = MaxKey(items))),
            b \in OrderByAsc(SelectSeq(items, LAMBDA it : it.key # MaxKey(items)))}

\* ORDER BY key DESC: the items by non-increasing key, equal keys in any order
RECURSIVE OrderByDesc(_)
OrderByDesc(items) ==
    IF items = <<>> THEN {<<>>}
    ELSE {a \o b :
            a \in Arrangements(SelectSeq(items, LAMBDA it : it.key = MaxKey(items))),
            b \in OrderByDesc(SelectSeq(items, LAMBDA it : it.key # MaxKey(items)))}

\* LIMIT n, n a row count
Limit(s, n) == SubSeq(s, 1, IF n < Len(s) THEN n ELSE Len(s))

\* the stored rows with the sort key taken from column col
WithKey(rows, col) ==
    [i \in 1..Len(rows) |-> [key |-> SortKey(rows[i][col]), row |-> rows[i]]]

\* SELECT cols of the ordered items
Columns(items, cols) ==
    [i \in 1..Len(items) |-> [c \in cols |-> items[i].row[c]]]

\* SQLite's LIKE compares ASCII letters without regard to case, and "_" in
\* the pattern stands for any one character
Fold(ch) == IF ch = "a" THEN "A" ELSE IF ch = "b" THEN "B" ELSE ch
MatchChar(p, ch) == p = "_" \/ Fold(p) = Fold(ch)

\* cell LIKE 'name%': the name at the start of the string only
LikePrefix(cell, name) ==
    /\ ~IsNull(cell)
    /\ Len(name) <= Len(Val(cell))
    /\ \A i \in 1..Len(name) : MatchChar(name[i], Val(cell)[i])

\* cell LIKE '%name%': NULL matches nothing
Like(cell, name) ==
    /\ ~IsNull(cell)
    /\ \E k \in 0..(Len(Val(cell)) - Len(name)) :
          \A i \in 1..Len(name) : MatchChar(name[i], Val(cell)[k + i])

\* the query of top_10_movies (lines 51-57)
TopQuery(rows, limit) ==
    {Columns(Limit(o, limit), {"title", "vote_average"}) :
        o \in OrderByDesc(WithKey(rows, "vote_average"))}

\* the query of high_rated_popular_movies (lines 76-83)
HighRatedQuery(rows, min_rating, min_votes) ==
    {Columns(Limit(o, HighRatedLimit),
             {"title", "release_year", "vote_average", "vote_count"}) :
        o \in OrderByDesc(WithKey(
                 SelectSeq(rows, LAMBDA r : /\ GE(r["vote_average"], min_rating)
                                            /\ GE(r["vote_count"], min_votes)),
                 "vote_average"))}

\* GROUP BY genres without the WHERE clause: NULL is a group of its own
GenreGroupsWithNull(rows) ==
    LET first == SelectSeq([i \in 1..Len(rows) |-> i],
                           LAMBDA i : \A j \in 1..(i - 1) :
                                         rows[j]["genres"] # rows[i]["genres"])
        Size(g) == Cardinality({j \in 1..Len(rows) : rows[j]["genres"] = g}) IN
    [k \in 1..Len(first) |->
        [key |-> Size(rows[first[k]]["genres"]),
         row |-> [genres |-> rows[first[k]]["genres"],
                  movie_count |-> Some(Size(rows[first[k]]["genres"]))]]]

\* GROUP BY genres with COUNT(*), NULL genres left out by the WHERE clause:
\* one item per distinct genres string
GenreGroups(rows) ==
    LET first == SelectSeq([i \in 1..Len(rows) |-> i],
                           LAMBDA i : /\ ~IsNull(rows[i]["genres"])
                                      /\ \A j \in 1..(i - 1) :
                                            rows[j]["genres"] # rows[i]["genres"])
        Size(g) == Cardinality({j \in 1..Len(rows) : rows[j]["genres"] = g}) IN
    [k \in 1..Len(first) |->
        [key |-> Size(rows[first[k]]["genres"]),
         row |-> [genres |-> rows[first[k]]["genres"],
                  movie_count |-> Some(Size(rows[first[k]]["genres"]))]]]

\* the query of movies_per_genre (lines 91-99)
GroupQuery(rows, limit) ==
    {Columns(Limit(o, limit), {"genres", "movie_count"}) :
        o \in OrderByDesc(GenreGroups(rows))}

\* the query of top_movies_by_genre (lines 106-113)
GenreQuery(rows, genre, limit) ==
    {Columns(Limit(o, limit), {"title", "vote_average", "vote_count", "genres"}) :
        o \in OrderByDesc(WithKey(SelectSeq(rows, LAMBDA r : Like(r["genres"], genre)),
                                  "vote_average"))}

\* run_query: pd.read_sql raises when the statement fails (the movies table
\* is missing), else returns the rows
run_query(t, results) ==
    IF ~t.exists THEN {[exc |-> "DatabaseError", ret |-> <<>>]}
    ELSE {[exc |-> "none", ret |-> r] : r \in results}

top_10_movies(t, limit) ==
    run_query(t, TopQuery(t.rows, ArgOr(limit, DefaultTopLimit)))

high_rated_popular_movies(t, min_rating, min_votes) ==
    run_query(t, HighRatedQuery(t.rows, min_rating, min_votes))

movies_per_genre(t, limit) ==
    run_query(t, GroupQuery(t.rows, ArgOr(limit, DefaultGroupLimit)))

top_movies_by_genre(t, genre, limit) ==
    run_query(t, GenreQuery(t.rows, genre, ArgOr(limit, DefaultGenreLimit)))

\* ------------------------------------------------------------ input sets
\* sequences over S of length at most n
SeqsUpTo(S, n) == UNION {[1..k -> S] : k \in 0..n}

Restrict(r, cols) == [col \in cols |-> r[col]]

\* header sets of the CSV files: any of the three cleaned columns may be absent
ColSets == {cs \cup {"vote_average"} : cs \in SUBSET {"title", "release_date", "genres"}}

FilesOver(rowset, n) ==
    UNION {{[cols |-> cs, rows |-> rs] :
              rs \in SeqsUpTo({Restrict(r, cs) : r \in rowset}, n)} : cs \in ColSets}

EmptyFile == [cols |-> {}, rows |-> <<>>]

\* rows of the tables given to clean_dataframe
CleanRows ==
    [title : {<<>>, <<" ">>, <<" ", "A">>},
     release_date : {<<>>, <<2020, 2, 29>>, <<2021, 2, 29>>},
     genres : {<<>>, <<"[", "{name:A}", "]">>, <<"[", "{name:A}">>},
     vote_average : {<<8>>}]

CleanFiles == FilesOver(CleanRows, MaxRows) \cup {EmptyFile}

\* the CSV files of the ETL runs
RowGood == [title |-> <<"A">>, release_date |-> <<2020, 2, 29>>,
            genres |-> <<"[", "{name:A}", ",", "{name:B}", "]">>, vote_average |-> <<9>>,
            vote_count |-> <<1000>>]
RowNoTitle == [RowGood EXCEPT !.title = <<>>]
RowBlankTitle == [RowGood EXCEPT !.title = <<" ">>, !.vote_average = <<7>>,
                                 !.vote_count = <<5>>]
RowBadDate == [RowGood EXCEPT !.release_date = <<2021, 2, 29>>]
RowBadGenres == [RowGood EXCEPT !.genres = <<"[", "{name:A}">>, !.vote_average = <<8>>]
RowNoGenres == [RowGood EXCEPT !.genres = <<"[", "]">>, !.vote_average = <<6>>]
AllCols == {"title", "release_date", "genres", "vote_average", "vote_count"}

CsvFiles ==
    {[cols |-> AllCols, rows |-> <<RowGood, RowNoTitle>>],
     [cols |-> AllCols, rows |-> <<RowBadGenres, RowGood>>],
     [cols |-> AllCols, rows |-> <<RowBlankTitle, RowNoGenres>>],
     [cols |-> AllCols, rows |-> <<RowBadDate>>],
     [cols |-> AllCols \ {"title"}, rows |-> <<Restrict(RowGood, AllCols \ {"title"})>>],
     EmptyFile}

\* persisted records given to the queries: two equally rated movies, one
\* without genres, one without a rating
MovieA == [title |-> Some(<<"A">>), release_year |-> Some(2020),
           genres |-> Some(<<"A", "|", "B">>), vote_average |-> Some(9),
           vote_count |-> Some(1000)]
MovieB == [MovieA EXCEPT !.title = Some(<<"B">>), !.genres = Some(<<"A">>),
                         !.vote_count = Some(5)]
MovieC == [MovieA EXCEPT !.title = Some(<<"C">>), !.genres = Null,
                         !.vote_average = Some(7)]
MovieD == [MovieA EXCEPT !.title = Some(<<"D">>), !.genres = Some(<<"B">>),
                         !.vote_average = Null]

Copies(m, n) == [i \in 1..n |-> m]

\* the stored tables: up to MaxCopies rows of MovieA and of MovieC, at most
\* one of MovieB and of MovieD; and the store without a movies table
StoredTables ==
    {[exists |-> TRUE,
      rows |-> Copies(MovieA, a) \o Copies(MovieB, b) \o Copies(MovieC, c)
                  \o Copies(MovieD, d)] :
        a \in 0..MaxCopies, b \in 0..1, c \in 0..MaxCopies, d \in 0..1}
    \cup {NoTable}

\* arguments of the query calls; <<>> is an omitted limit
Limits == {<<>>, <<0>>, <<1>>, <<2>>}
MinRatings == {0, 8, 9}
MinVotes == {0, 1000}
GenreNames == {<<>>, <<"A">>, <<"a">>, <<"B">>, <<"_">>, <<"A", "|", "B">>,
               <<"B", "|", "A">>}

\* ----------------------------------------------------------------- actions
\* what a call finds: the files, the table, and whether the call before it
\* has just finished (with which archive flag)
Snapshot ==
    [src |-> fs_src, arch |-> fs_arch, dir |-> archive_dir, table |-> table,
     done |-> pc = "done", archived |-> (pc = "done" /\ archive)]
NotRunning == pc \in {"idle", "done", "raised"}
Pending == [exc |-> "pending", ret |-> Null]

\* the environment puts a new CSV file at csv_path between two runs
PutCsv(f) ==
    /\ NotRunning
    /\ runs < MaxRuns
    /\ f # fs_src
    /\ fs_src' = f
    /\ pc' = "idle"
    /\ UNCHANGED <<archive_dir, fs_arch, table, df, err, archive, pre,
                   written, runs, genre_str, genre_ret,
                   q_call, q_ret, conn_open>>

\* load_csv_to_sqlite(csv_path, archive=a) is called and runs line 189
Load(a) ==
    /\ NotRunning
    /\ runs < MaxRuns
    /\ runs' = runs + 1
    /\ archive' = a
    /\ pre' = Snapshot
    /\ \E r \in {load_csv_to_dataframe(fs_src)} :
       /\ err' = r.exc
       /\ df' = r.df
       /\ pc' = IF r.exc = "none" THEN "clean" ELSE "raised"
    /\ UNCHANGED <<fs_src, archive_dir, fs_arch, table, written, genre_str, genre_ret,
                   q_call, q_ret, conn_open>>

\* line 190 with the archive step of line 194 run right after it
CleanArchiveFirst ==
    /\ pc = "clean"
    /\ \E r \in {clean_dataframe(df)} :
       /\ err' = r.exc
       /\ df' = r.df
       /\ pc' = IF r.exc = "none" THEN "save" ELSE "raised"
       /\ archive_dir' = (archive_dir \/ (archive /\ r.exc = "none"))
       /\ fs_arch' = IF archive /\ r.exc = "none" THEN fs_src ELSE fs_arch
       /\ fs_src' = IF archive /\ r.exc = "none" THEN NoFile ELSE fs_src
    /\ UNCHANGED <<table, archive, pre, written, runs, genre_str, genre_ret,
                   q_call, q_ret, conn_open>>

\* line 190: df = clean_dataframe(df)
Clean ==
    /\ pc = "clean"
    /\ \E r \in {clean_dataframe(df)} :
       /\ err' = r.exc
       /\ df' = r.df
       /\ pc' = IF r.exc = "none" THEN "save" ELSE "raised"
    /\ UNCHANGED <<fs_src, archive_dir, fs_arch, table, archive, pre, written,
                   runs, genre_str, genre_ret,
                   q_call, q_ret, conn_open>>

\* line 191 with if_exists="append": the rows are added to those stored
SaveAppend ==
    /\ pc = "save"
    /\ table' = [exists |-> TRUE, rows |-> table.rows \o to_sql(df).rows]
    /\ written' = [src |-> pre.src, intact |-> TRUE]
    /\ pc' = IF archive THEN "archive" ELSE "done"
    /\ conn_open' = FALSE
    /\ UNCHANGED <<fs_src, archive_dir, fs_arch, df, err, archive, pre, runs,
                   genre_str, genre_ret, q_call, q_ret>>

\* line 191: save_dataframe_to_sqlite completes; line 193 then picks the branch
Save ==
    /\ pc = "save"
    /\ table' = to_sql(df)
    /\ written' = [src |-> pre.src, intact |-> TRUE]
    /\ pc' = IF archive THEN "archive" ELSE "done"
    /\ conn_open' = FALSE
    /\ UNCHANGED <<fs_src, archive_dir, fs_arch, df, err, archive, pre, runs,
                   genre_str, genre_ret, q_call, q_ret>>

\* line 191 raises a store error: connect failed (table untouched, no
\* connection), or to_sql failed on the open connection, before its DROP
\* (table untouched), after it (no table) or after its CREATE (no rows);
\* line 139, conn.close(), is then not reached
SaveFail ==
    /\ pc = "save"
    /\ table' \in {table, NoTable, EmptyTable}
    /\ conn_open' \in {b \in BOOLEAN : b \/ table' = table}
    /\ written' = [written EXCEPT !.intact = @ /\ table' = table]
    /\ err' = "OperationalError"
    /\ pc' = "raised"
    /\ UNCHANGED <<fs_src, archive_dir, fs_arch, df, archive, pre, runs,
                   genre_str, genre_ret, q_call, q_ret>>

\* line 194 copying the file instead of moving it
ArchiveCopy ==
    /\ pc = "archive"
    /\ archive_dir' = TRUE
    /\ fs_arch' = fs_src
    /\ pc' = "done"
    /\ UNCHANGED <<fs_src, table, df, err, archive, pre, written, runs,
                   genre_str, genre_ret,
                   q_call, q_ret, conn_open>>

\* line 194 with a move that keeps a file already archived under that name
ArchiveKeepExisting ==
    /\ pc = "archive"
    /\ archive_dir' = TRUE
    /\ fs_arch' = IF fs_arch = NoFile THEN fs_src ELSE fs_arch
    /\ fs_src' = NoFile
    /\ pc' = "done"
    /\ UNCHANGED <<table, df, err, archive, pre, written, runs, genre_str, genre_ret,
                   q_call, q_ret, conn_open>>

\* line 194: archive_file: mkdir(exist_ok=True), then shutil.move to
\* archive/<base name>, replacing a file of that name
Archive ==
    /\ pc = "archive"
    /\ archive_dir' = TRUE
    /\ fs_arch' = fs_src
    /\ fs_src' = NoFile
    /\ pc' = "done"
    /\ UNCHANGED <<table, df, err, archive, pre, written, runs, genre_str, genre_ret,
                   q_call, q_ret, conn_open>>

\* line 194 raises an I/O error, in mkdir or in the move after it
ArchiveFail ==
    /\ pc = "archive"
    /\ archive_dir' \in {archive_dir, TRUE}
    /\ err' = "OSError"
    /\ pc' = "raised"
    /\ UNCHANGED <<fs_src, fs_arch, table, df, archive, pre, written, runs,
                   genre_str, genre_ret,
                   q_call, q_ret, conn_open>>

NoCall == [fn |-> "none", args |-> <<>>, on |-> NoTable]
NoResult == [exc |-> "pending", ret |-> <<>>]

\* a query call that answers from the previous result when the same
\* function was called last
QueryCached(fn, args, outcomes) ==
    /\ NotRunning
    /\ q_ret' \in (IF q_call.fn = fn THEN {q_ret} ELSE outcomes)
    /\ conn_open' = (q_ret'.exc # "none")
    /\ q_call' = [fn |-> fn, args |-> args, on |-> table]
    /\ UNCHANGED <<fs_src, archive_dir, fs_arch, table, pc, df, err, archive,
                   pre, written, runs, genre_str, genre_ret>>

\* one call of a query function between two ETL runs (run_query, lines
\* 31-34): connect, read the rows, close; when pd.read_sql raises, line 33
\* is not reached and the connection stays open
Query(fn, args, outcomes) ==
    /\ NotRunning
    /\ q_ret' \in outcomes
    /\ conn_open' = (q_ret'.exc # "none")
    /\ q_call' = [fn |-> fn, args |-> args, on |-> table]
    /\ UNCHANGED <<fs_src, archive_dir, fs_arch, table, pc, df, err, archive,
                   pre, written, runs, genre_str, genre_ret>>

Top10Movies(limit) ==
    Query("top_10_movies", <<limit>>, top_10_movies(table, limit))

HighRatedPopularMovies(min_rating, min_votes) ==
    Query("high_rated_popular_movies", <<min_rating, min_votes>>,
          high_rated_popular_movies(table, min_rating, min_votes))

MoviesPerGenre(limit) ==
    Query("movies_per_genre", <<limit>>, movies_per_genre(table, limit))

TopMoviesByGenre(genre, limit) ==
    Query("top_movies_by_genre", <<genre, limit>>,
          top_movies_by_genre(table, genre, limit))

\* any call of the query layer with arguments from the given sets
QueryCall(limits, ratings, votes, genres) ==
    \/ \E limit \in limits : Top10Movies(limit)
    \/ \E min_rating \in ratings : \E min_votes \in votes :
          HighRatedPopularMovies(min_rating, min_votes)
    \/ \E limit \in limits : MoviesPerGenre(limit)
    \/ \E genre \in genres : \E limit \in limits : TopMoviesByGenre(genre, limit)

\* the calls of main (lines 14-27): default limits, min_rating=8.0,
\* min_votes=1000, one genre name; and the same calls with a limit of 1
MainQueries == QueryCall({<<>>, <<1>>}, {8}, {1000}, {<<"A">>})

\* a direct call extract_genres(genre_str)
CallExtract ==
    /\ genre_ret = Pending
    /\ genre_ret' = extract_genres(genre_str)
    /\ UNCHANGED <<fs_src, archive_dir, fs_arch, table, pc, df, err, archive,
                   pre, written, runs, genre_str, q_call, q_ret, conn_open>>

\* ---------------------------------------------------------- specifications
InitRest ==
    /\ fs_arch = NoFile
    /\ table = NoTable
    /\ pc = "idle"
    /\ df = NoFrame
    /\ err = "none"
    /\ archive = FALSE
    /\ pre = [src |-> NoFile, arch |-> NoFile, dir |-> FALSE, table |-> NoTable,
              done |-> FALSE, archived |-> FALSE]
    /\ written = [src |-> NoFile, intact |-> FALSE]
    /\ runs = 0
    /\ q_call = NoCall
    /\ q_ret = NoResult
    /\ conn_open = FALSE

\* the ETL runs of main: load_csv_to_sqlite called again and again
Init ==
    /\ fs_src \in CsvFiles \cup {NoFile}
    /\ archive_dir \in BOOLEAN
    /\ genre_str = Null
    /\ genre_ret = extract_genres(Null)
    /\ InitRest

Next ==
    \/ \E f \in CsvFiles : PutCsv(f)
    \/ \E a \in BOOLEAN : Load(a)
    \/ Clean
    \/ Save
    \/ SaveFail
    \/ Archive
    \/ ArchiveFail
    \/ MainQueries

Spec == Init /\ [][Next]_vars

\* clean_dataframe on every table of the bounded input set
InitClean ==
    /\ fs_src \in CleanFiles
    /\ archive_dir = FALSE
    /\ genre_str = Null
    /\ genre_ret = extract_genres(Null)
    /\ InitRest

NextClean ==
    \/ Load(FALSE)
    \/ Clean

SpecClean == InitClean /\ [][NextClean]_vars

\* extract_genres on the missing value and on every literal of at most
\* MaxTok tokens
InitGenres ==
    /\ fs_src = NoFile
    /\ archive_dir = FALSE
    /\ \E k \in 0..MaxTok : \E ts \in [1..k -> Tokens] : genre_str \in {Null, Some(ts)}
    /\ genre_ret = Pending
    /\ InitRest

NextGenres == CallExtract

SpecGenres == InitGenres /\ [][NextGenres]_vars

\* the query functions on every stored table of the bounded input set
InitQuery ==
    /\ fs_src = NoFile
    /\ archive_dir = FALSE
    /\ fs_arch = NoFile
    /\ table \in StoredTables
    /\ pc = "idle"
    /\ df = NoFrame
    /\ err = "none"
    /\ archive = FALSE
    /\ pre = [src |-> NoFile, arch |-> NoFile, dir |-> FALSE, table |-> NoTable,
              done |-> FALSE, archived |-> FALSE]
    /\ written = [src |-> NoFile, intact |-> FALSE]
    /\ runs = 0
    /\ genre_str = Null
    /\ genre_ret = extract_genres(Null)
    /\ q_call = NoCall
    /\ q_ret = NoResult
    /\ conn_open = FALSE

NextQuery == QueryCall(Limits, MinRatings, MinVotes, GenreNames)

SpecQuery == InitQuery /\ [][NextQuery]_vars

\* ------------------------------------------------------------------ claims
\* the top-level items of the parsed literal, when it is a list or tuple
ListedItems(cell) ==
    LET e == literal_eval(cell) IN
    IF e.ok /\ e.v.t = "seq" THEN e.v.items ELSE <<>>

IsNamedObject(g) == g.t = "atom" /\ g.a \in {"{name:A}", "{name:B}", "{name:}"}
IsObject(g) == g.t = "atom" /\ g.a \in DictAtoms
ObjectName(g) == IF g.a = "{name:A}" THEN <<"A">>
                 ELSE IF g.a = "{name:B}" THEN <<"B">> ELSE <<>>

RECURSIVE ListedNames(_)
ListedNames(items) ==
    IF items = <<>> THEN <<>>
    ELSE IF IsNamedObject(Head(items))
         THEN <<ObjectName(Head(items))>> \o ListedNames(Tail(items))
    ELSE ListedNames(Tail(items))

\* a well-formed list: every item an object whose name, if any, is a string
WellFormedList(cell) ==
    LET e == literal_eval(cell) IN
    /\ e.ok /\ e.v.t = "seq"
    /\ \A i \in 1..Len(e.v.items) :
         IsObject(e.v.items[i]) /\ e.v.items[i].a # "{name:5}"

\* C3: extract_genres is total: on every raw value (well-formed list,
\* malformed literal, non-list literal, missing value) it returns without
\* raising, and what it returns is null or the names of the listed objects
\* joined with "|" in list order; on a well-formed list it is the latter.
C3_ExtractTotal ==
    genre_ret # Pending =>
        /\ genre_ret.exc = "none"
        /\ \/ IsNull(genre_ret.ret)
           \/ genre_ret.ret = Some(Join(ListedNames(ListedItems(genre_str))))
        /\ WellFormedList(genre_str) => ~IsNull(genre_ret.ret)

C3_Witness ==
    /\ genre_str = Some(<<"[", "{name:A}", ",", "{name:B}", "]">>)
    /\ genre_ret = [exc |-> "none", ret |-> Some(<<"A", "|", "B">>)]

\* the table handed to clean_dataframe in the current run, and the rows of
\* the returned table that carry a given index label
InFrame == read_csv(pre.src)
Cleaned == pc = "save"
OutRows(label) == SelectSeq(df.rows, LAMBDA r : r.idx = label)

\* the raw text is a calendar date "y-m-d"
IsDateText(t) ==
    /\ Len(t) = 3
    /\ t[2] >= 1 /\ t[2] <= 12
    /\ t[3] >= 1
    /\ t[3] <= (IF t[2] = 2 THEN (IF (t[1] % 4 = 0 /\ t[1] % 100 # 0) \/ t[1] % 400 = 0
                                  THEN 29 ELSE 28)
                ELSE IF t[2] \in {4, 6, 9, 11} THEN 30 ELSE 31)

HasDate(j) ==
    /\ "release_date" \in pre.src.cols
    /\ IsDateText(pre.src.rows[j]["release_date"])

HasTitle(j) == "title" \in pre.src.cols /\ pre.src.rows[j]["title"] # <<>>

\* C1: when the input table has a title column, every row of the table
\* clean_dataframe returns has a non-null title and a non-null release_year,
\* and no input row with a missing title has an output row.
C1_TitleYearInvariant ==
    (Cleaned /\ "title" \in pre.src.cols) =>
        /\ \A i \in 1..Len(df.rows) :
              /\ ~IsNull(df.rows[i].c["title"])
              /\ ~IsNull(df.rows[i].c["release_year"])
        /\ \A j \in 1..Len(InFrame.rows) :
              IsNull(InFrame.rows[j].c["title"]) => OutRows(j - 1) = <<>>

C1_Witness ==
    /\ Cleaned
    /\ Len(pre.src.rows) = 2
    /\ Len(df.rows) = 1
    /\ \E j \in 1..2 : IsNull(InFrame.rows[j].c["title"])

\* C2: an input row whose release_date is not a parseable date, or any row
\* when the release_date column is absent, gets a null year and has no
\* output row; a row with a parseable date and a title is kept, once, with
\* release_year the calendar year of that date.
C2_YearDerivation ==
    Cleaned =>
        \A j \in 1..Len(pre.src.rows) :
            /\ ~HasDate(j) => OutRows(j - 1) = <<>>
            /\ (HasDate(j) /\ HasTitle(j)) =>
                  /\ Len(OutRows(j - 1)) = 1
                  /\ OutRows(j - 1)[1].c["release_year"]
                        = Some(pre.src.rows[j]["release_date"][1])

C2_Witness ==
    /\ Cleaned
    /\ Len(pre.src.rows) = 2
    /\ HasTitle(1) /\ HasTitle(2)
    /\ HasDate(1) /\ ~HasDate(2)
    /\ "release_date" \in pre.src.cols /\ pre.src.rows[2]["release_date"] # <<>>
    /\ Len(df.rows) = 1
    /\ df.rows[1].c["release_year"] = Some(2020)

\* the genres value of input row j cannot be parsed: the field is missing
\* or its literal is malformed
BadGenres(j) ==
    /\ "genres" \in pre.src.cols
    /\ ~literal_eval(InFrame.rows[j].c["genres"]).ok

\* the input table without its row j (index labels kept)
Without(d, j) ==
    [cols |-> d.cols,
     rows |-> SelectSeq(d.rows, LAMBDA r : r.idx # j - 1)]

\* C4: a genre parse failure is local to its row: clean_dataframe does not
\* raise for it, the row gets null genres and is kept exactly when its title
\* and release_year are non-null, and every other row comes out as it would
\* without the bad row.
C4_GenreFailureLocal ==
    /\ (pc = "raised" /\ err \notin {"FileNotFoundError", "EmptyDataError"})
          => (err = "KeyError" /\ "title" \notin pre.src.cols)
    /\ Cleaned =>
          \A j \in 1..Len(pre.src.rows) :
              BadGenres(j) =>
                  /\ (HasTitle(j) /\ HasDate(j)) <=> (OutRows(j - 1) # <<>>)
                  /\ \A i \in 1..Len(OutRows(j - 1)) :
                        IsNull(OutRows(j - 1)[i].c["genres"])
                  /\ SelectSeq(df.rows, LAMBDA r : r.idx # j - 1)
                        = clean_dataframe(Without(InFrame, j)).df.rows

C4_Witness ==
    /\ Cleaned
    /\ Len(pre.src.rows) = 2
    /\ BadGenres(1) /\ ~BadGenres(2)
    /\ pre.src.rows[1]["genres"] # <<>>
    /\ Len(df.rows) = 2
    /\ IsNull(df.rows[1].c["genres"])
    /\ ~IsNull(df.rows[2].c["genres"])

\* the persisted rows
Persisted == {table.rows[i] : i \in 1..Len(table.rows)}

\* C5: in every persisted record with non-null genres, no segment of genres
\* split on "|" is empty or whitespace-only after trimming.
C5_GenreSegmentsNonEmpty ==
    \A m \in Persisted :
        ~IsNull(m["genres"]) =>
            \A k \in 1..Len(Split(Val(m["genres"]))) :
                Strip(Split(Val(m["genres"]))[k]) # <<>>

\* C6: every persisted record's title is non-empty after trimming.
C6_TitleNonEmpty ==
    \A m \in Persisted :
        /\ ~IsNull(m["title"])
        /\ Strip(Val(m["title"])) # <<>>

\* what one ETL run persists for a source file
Transform(file) == to_sql(clean_dataframe(read_csv(file)).df)

C8_MissingSourceAborts ==
    (pc # "idle" /\ pre.src = NoFile) =>
        /\ pc = "raised"
        /\ err = "FileNotFoundError"
        /\ table = pre.table
        /\ fs_arch = pre.arch
        /\ archive_dir = pre.dir
        /\ fs_src = NoFile

\* a run on a missing source after an earlier run has written and archived
C8_Witness ==
    /\ pc = "raised"
    /\ err = "FileNotFoundError"
    /\ runs = 2
    /\ table.exists /\ table.rows # <<>>
    /\ fs_arch # NoFile

\* C9: the source file is archived only after the store write completed:
\* a run whose archive step fails has already persisted the transformed
\* rows, a run whose load, transform or store write fails leaves the source
\* (and the archive) as they were, and the source has left its path only in
\* a finished run whose rows are persisted.
C9_ArchiveAfterWrite ==
    /\ (pc = "raised" /\ err = "OSError") =>
          (table = Transform(pre.src) /\ fs_src = pre.src)
    /\ (pc = "raised" /\ err # "OSError") =>
          (fs_src = pre.src /\ fs_arch = pre.arch)
    /\ (pc # "idle" /\ (fs_src # pre.src \/ fs_arch # pre.arch)) =>
          (pc = "done" /\ archive /\ table = Transform(pre.src))

\* a failed archive step after a write that replaced the table's rows
C9_Witness ==
    /\ pc = "raised"
    /\ err = "OSError"
    /\ table # pre.table
    /\ table.rows # <<>>
    /\ fs_src # NoFile

\* C10: archive_file, called when the archive directory does not exist and
\* the source file does, creates the directory and moves the file into it
\* under its base name: nothing is left at the source path.
C10_ArchiveCreatesDir ==
    (pc = "done" /\ archive /\ ~pre.dir) =>
        /\ archive_dir
        /\ fs_src = NoFile
        /\ fs_arch = pre.src
        /\ fs_arch # NoFile

C10_Witness ==
    /\ pc = "done"
    /\ archive
    /\ ~pre.dir
    /\ archive_dir
    /\ fs_src = NoFile
    /\ fs_arch = pre.src
    /\ Len(fs_arch.rows) = 2

\* a run has gone through the archive step (finished or failed in it) while
\* the archive already held a file under the source's base name
ArchiveCollision ==
    /\ archive
    /\ pre.arch # NoFile
    /\ pre.src # NoFile
    /\ (pc = "done" \/ (pc = "raised" /\ err = "OSError"))

\* C11 as stated: archive_file fails with an I/O error whenever the archive
\* directory already holds a file of the source's base name; the archived
\* file is not overwritten and the source file stays at its path.
C11_CollisionFails ==
    ArchiveCollision =>
        /\ pc = "raised"
        /\ err = "OSError"
        /\ fs_arch = pre.arch
        /\ fs_src = pre.src

\* C11 as the code behaves: a file already archived under the source's base
\* name does not make archive_file fail; when the move completes the
\* archived file has been replaced by the source file and nothing is left
\* at the source path, and only when the step raises an I/O error are the
\* archived file and the source file as they were.
C11_CollisionOverwrites ==
    /\ (ArchiveCollision /\ pc = "done") =>
          (fs_arch = pre.src /\ fs_src = NoFile)
    /\ (ArchiveCollision /\ pc = "raised") =>
          (fs_arch = pre.arch /\ fs_src = pre.src)

\* a finished run whose move replaced a different archived file
C11_Witness ==
    /\ ArchiveCollision
    /\ pc = "done"
    /\ pre.arch # pre.src
    /\ fs_arch = pre.src
    /\ fs_arch # pre.arch
    /\ fs_src = NoFile

\* the table of the current run after the year and genres steps, as it
\* enters the projection and the final null-drop
Derived == GenresStep(YearStep(TitleDrop(InFrame))).df
DerivedRows(label) == SelectSeq(Derived.rows, LAMBDA r : r.idx = label)

\* C18 as stated: the year and genres derivations run before the final
\* null-drop, and a titled row failing either of them (unparseable
\* release_date, or unparseable genres) is removed by that final filter.
C18_EitherFailureDropped ==
    Cleaned =>
        \A j \in 1..Len(pre.src.rows) :
            (HasTitle(j) /\ (~HasDate(j) \/ BadGenres(j))) =>
                /\ Len(DerivedRows(j - 1)) = 1
                /\ OutRows(j - 1) = <<>>

\* C18 as the code behaves: both derivations run before the final
\* null-drop, so every titled row reaches that filter carrying its derived
\* release_year and genres; the filter removes the rows whose release_date
\* did not parse (null release_year), and it keeps a row whose genres did
\* not parse, with null genres, when its date parsed.
C18_YearFailureDropped ==
    Cleaned =>
        \A j \in 1..Len(pre.src.rows) :
            HasTitle(j) =>
                /\ Len(DerivedRows(j - 1)) = 1
                /\ IsNull(DerivedRows(j - 1)[1].c["release_year"]) <=> ~HasDate(j)
                /\ BadGenres(j) => IsNull(DerivedRows(j - 1)[1].c["genres"])
                /\ ~HasDate(j) => OutRows(j - 1) = <<>>
                /\ (HasDate(j) /\ BadGenres(j)) =>
                      /\ Len(OutRows(j - 1)) = 1
                      /\ IsNull(OutRows(j - 1)[1].c["genres"])

\* one row lost to an unparseable date, one kept despite unparseable genres
C18_Witness ==
    /\ Cleaned
    /\ Len(pre.src.rows) = 2
    /\ HasTitle(1) /\ HasTitle(2)
    /\ "release_date" \in pre.src.cols
    /\ pre.src.rows[1]["release_date"] # <<>> /\ ~HasDate(1)
    /\ HasDate(2) /\ BadGenres(2) /\ pre.src.rows[2]["genres"] # <<>>
    /\ Len(df.rows) = 1
    /\ df.rows[1].idx = 1
    /\ IsNull(df.rows[1].c["genres"])

\* the current call of load_csv_to_sqlite directly follows a finished one,
\* with nothing put at the source path in between
Repeated == pc # "idle" /\ pre.done

\* C19: after a finished run with archive enabled the source path holds no
\* file, so the run repeated at once ends with the source-not-found error
\* and the table stays exactly as the first run wrote it; after a finished
\* run with archive=False the source is still there, and the repeated run
\* raises none of its own errors (only a store or I/O fault can stop it)
\* and writes the same table again.
C19_RepeatedRun ==
    /\ (Repeated /\ pre.archived) =>
          /\ pre.src = NoFile
          /\ pc = "raised"
          /\ err = "FileNotFoundError"
          /\ table = pre.table
          /\ written.intact
          /\ table = Transform(written.src)
    /\ (Repeated /\ ~pre.archived) =>
          /\ pre.src # NoFile
          /\ pc = "raised" => err \in {"OperationalError", "OSError"}
          /\ pc \in {"archive", "done"} =>
                (table = pre.table /\ table = Transform(pre.src))

\* the repeated run after an archiving run that persisted two rows
C19_Witness ==
    /\ Repeated
    /\ pre.archived
    /\ runs = 2
    /\ pc = "raised"
    /\ err = "FileNotFoundError"
    /\ Len(table.rows) = 2
    /\ fs_arch = written.src

\* the repeated run after a run with archive=False has written again
C19_WitnessNoArchive ==
    /\ Repeated
    /\ ~pre.archived
    /\ runs = 2
    /\ pc = "done"
    /\ Len(table.rows) = 2
    /\ table = pre.table

\* the last query call was of function fn and returned a result table
Returned(fn) == q_call.fn = fn /\ q_ret.exc = "none"

\* how often row x occurs in the table s
Count(s, x) == Cardinality({i \in 1..Len(s) : s[i] = x})

\* the stored rows of the table the call ran on, cut down to the columns cols
Stored(cols) ==
    [i \in 1..Len(q_call.on.rows) |-> [c \in cols |-> q_call.on.rows[i][c]]]

\* the table s has its rows by non-increasing vote_average, NULL last
ByRatingDesc(s) ==
    \A i \in 1..Len(s) : \A j \in i..Len(s) :
        \/ IsNull(s[j]["vote_average"])
        \/ /\ ~IsNull(s[i]["vote_average"])
           /\ Val(s[i]["vote_average"]) >= Val(s[j]["vote_average"])

\* the result res consists of rows of the table all, each at most as often
\* as it is stored, and every row it leaves out is rated no higher than any
\* row it has
HighestRated(res, all) ==
    /\ \A i \in 1..Len(res) : Count(res, res[i]) <= Count(all, res[i])
    /\ \A k \in 1..Len(all) :
          Count(res, all[k]) < Count(all, all[k]) =>
              ByRatingDesc(res \o <<all[k]>>)

Min(a, b) == IF a < b THEN a ELSE b

\* C12: top_10_movies(limit) returns its rows in non-increasing
\* vote_average order, exactly min(limit, number of stored rows) of them,
\* and they are the highest-rated rows of the table; an omitted limit is 10.
C12_TopByRating ==
    Returned("top_10_movies") =>
        /\ ByRatingDesc(q_ret.ret)
        /\ Len(q_ret.ret) = Min(IF q_call.args[1] = <<>> THEN 10 ELSE q_call.args[1][1],
                                Len(q_call.on.rows))
        /\ HighestRated(q_ret.ret, Stored({"title", "vote_average"}))

\* the default limit cuts a table of twelve rows to ten, the two equally
\* rated movies in an order the store chose, the unrated movie left out
C12_Witness ==
    /\ Returned("top_10_movies")
    /\ q_call.args[1] = <<>>
    /\ Len(q_call.on.rows) = 12
    /\ Len(q_ret.ret) = 10
    /\ q_ret.ret[1]["title"] = Some(<<"B">>)
    /\ q_ret.ret[2]["title"] = Some(<<"A">>)
    /\ q_ret.ret[10]["vote_average"] = Some(7)

\* the row has a rating of at least min_rating and at least min_votes votes
Qualifies(r, min_rating, min_votes) ==
    /\ ~IsNull(r["vote_average"]) /\ Val(r["vote_average"]) >= min_rating
    /\ ~IsNull(r["vote_count"]) /\ Val(r["vote_count"]) >= min_votes

\* C13: high_rated_popular_movies(min_rating, min_votes) returns only stored
\* rows with vote_average >= min_rating and vote_count >= min_votes, leaves
\* out a qualifying row only when it returns 10 rows all rated at least as
\* high, is ordered by vote_average descending, and has at most 10 rows.
C13_HighRatedPopular ==
    Returned("high_rated_popular_movies") =>
        LET res == q_ret.ret
            all == Stored({"title", "release_year", "vote_average", "vote_count"}) IN
        /\ \A i \in 1..Len(res) :
              /\ Qualifies(res[i], q_call.args[1], q_call.args[2])
              /\ Count(res, res[i]) <= Count(all, res[i])
        /\ \A k \in 1..Len(all) :
              (/\ Qualifies(all[k], q_call.args[1], q_call.args[2])
               /\ Count(res, all[k]) < Count(all, all[k])) =>
                  (Len(res) = 10 /\ ByRatingDesc(res \o <<all[k]>>))
        /\ ByRatingDesc(res)
        /\ Len(res) <= 10

\* eleven of twelve stored rows qualify: ten are returned, one of the
\* lowest-rated qualifying rows is left out, the unrated row never qualifies
C13_Witness ==
    /\ Returned("high_rated_popular_movies")
    /\ q_call.args = <<0, 0>>
    /\ Len(q_call.on.rows) = 12
    /\ Len(q_ret.ret) = 10
    /\ q_ret.ret[6]["title"] = Some(<<"B">>)
    /\ q_ret.ret[10]["title"] = Some(<<"C">>)

\* the vote threshold removes the low-count movie of an otherwise equal rating
C13_WitnessVotes ==
    /\ Returned("high_rated_popular_movies")
    /\ q_call.args = <<9, 1000>>
    /\ \E k \in 1..Len(q_call.on.rows) : q_call.on.rows[k] = MovieB
    /\ Len(q_ret.ret) = 5
    /\ \A i \in 1..5 : q_ret.ret[i]["title"] = Some(<<"A">>)

\* the distinct non-null genres strings of the table the call ran on, and
\* the number of its rows that carry the string g
GenreStrings ==
    {q_call.on.rows[i]["genres"] : i \in 1..Len(q_call.on.rows)} \ {Null}
RowsWith(g) ==
    Cardinality({i \in 1..Len(q_call.on.rows) : q_call.on.rows[i]["genres"] = g})

\* C14: movies_per_genre(limit) has one row per distinct non-null genres
\* string, the full combination and never a single genre of it, with
\* movie_count the number of stored rows carrying exactly that string; a
\* row with null genres is counted nowhere; the groups come by count
\* descending, the min(limit, number of groups) largest of them; an omitted
\* limit is 20.
C14_MoviesPerGenre ==
    Returned("movies_per_genre") =>
        LET res == q_ret.ret IN
        /\ \A i \in 1..Len(res) :
              /\ res[i]["genres"] \in GenreStrings
              /\ res[i]["movie_count"] = Some(RowsWith(res[i]["genres"]))
              /\ \A j \in 1..Len(res) : res[j]["genres"] = res[i]["genres"] => j = i
              /\ \A j \in i..Len(res) :
                    Val(res[i]["movie_count"]) >= Val(res[j]["movie_count"])
              /\ \A g \in GenreStrings :
                    (\A j \in 1..Len(res) : res[j]["genres"] # g) =>
                        RowsWith(g) <= Val(res[i]["movie_count"])
        /\ Len(res) = Min(IF q_call.args[1] = <<>> THEN 20 ELSE q_call.args[1][1],
                          Cardinality(GenreStrings))

\* twelve stored rows, five with null genres: three groups, "A|B" counted
\* five times and not under "A" or "B", which have one row each
C14_Witness ==
    /\ Returned("movies_per_genre")
    /\ q_call.args[1] = <<>>
    /\ Len(q_call.on.rows) = 12
    /\ Len(q_ret.ret) = 3
    /\ q_ret.ret[1] = [genres |-> Some(<<"A", "|", "B">>), movie_count |-> Some(5)]
    /\ q_ret.ret[2] = [genres |-> Some(<<"B">>), movie_count |-> Some(1)]
    /\ q_ret.ret[3] = [genres |-> Some(<<"A">>), movie_count |-> Some(1)]

\* the text holds the name as a substring, character for character
Contains(text, name) ==
    \E k \in 0..(Len(text) - Len(name)) : \A i \in 1..Len(name) : text[k + i] = name[i]

\* the same letter in either case
SameLetter(a, b) == a = b \/ {a, b} = {"A", "a"} \/ {a, b} = {"B", "b"}

\* the text holds the name as a substring when letter case is ignored
ContainsNoCase(text, name) ==
    \E k \in 0..(Len(text) - Len(name)) :
        \A i \in 1..Len(name) : SameLetter(text[k + i], name[i])

StoredGenreCols == Stored({"title", "vote_average", "vote_count", "genres"})

\* C15 as stated: top_movies_by_genre(genre, limit) returns exactly the
\* stored rows whose genres string contains the genre name as a substring
\* (never a row with null genres or without that substring), by
\* vote_average descending, cut to limit rows; an omitted limit is 10.
C15_ExactSubstring ==
    Returned("top_movies_by_genre") =>
        LET res == q_ret.ret
            match == SelectSeq(StoredGenreCols,
                               LAMBDA r : /\ ~IsNull(r["genres"])
                                          /\ Contains(Val(r["genres"]), q_call.args[1])) IN
        /\ Len(res) = Min(IF q_call.args[2] = <<>> THEN 10 ELSE q_call.args[2][1],
                          Len(match))
        /\ ByRatingDesc(res)
        /\ HighestRated(res, match)

\* C15 as the code behaves: for a genre name without the LIKE wildcards "%"
\* and "_", top_movies_by_genre(genre, limit) returns exactly the stored
\* rows whose genres string contains the name as a substring when the case
\* of ASCII letters is ignored (never a row with null genres), by
\* vote_average descending, cut to limit rows; an omitted limit is 10.
C15_SubstringNoCase ==
    (/\ Returned("top_movies_by_genre")
     /\ \A i \in 1..Len(q_call.args[1]) : q_call.args[1][i] \notin {"%", "_"}) =>
        LET res == q_ret.ret
            match == SelectSeq(StoredGenreCols,
                               LAMBDA r : /\ ~IsNull(r["genres"])
                                          /\ ContainsNoCase(Val(r["genres"]), q_call.args[1])) IN
        /\ Len(res) = Min(IF q_call.args[2] = <<>> THEN 10 ELSE q_call.args[2][1],
                          Len(match))
        /\ ByRatingDesc(res)
        /\ HighestRated(res, match)

\* the name "a" finds the six movies of genres "A|B" and "A" among twelve
\* stored rows, and neither the movie of genre "B" nor those without genres
C15_Witness ==
    /\ Returned("top_movies_by_genre")
    /\ q_call.args = <<(<<"a">>), (<<>>)>>
    /\ Len(q_call.on.rows) = 12
    /\ Len(q_ret.ret) = 6
    /\ q_ret.ret[1]["genres"] = Some(<<"A">>)
    /\ q_ret.ret[2]["genres"] = Some(<<"A", "|", "B">>)

\* what the last query call can return on the table it ran on, by its
\* function and its arguments alone
Outcomes ==
    IF q_call.fn = "top_10_movies" THEN top_10_movies(q_call.on, q_call.args[1])
    ELSE IF q_call.fn = "high_rated_popular_movies"
         THEN high_rated_popular_movies(q_call.on, q_call.args[1], q_call.args[2])
    ELSE IF q_call.fn = "movies_per_genre" THEN movies_per_genre(q_call.on, q_call.args[1])
    ELSE IF q_call.fn = "top_movies_by_genre"
         THEN top_movies_by_genre(q_call.on, q_call.args[1], q_call.args[2])
    ELSE {NoResult}

\* a step in which a query call has run
QueryStep == q_call' # q_call \/ q_ret' # q_ret

\* C16: the query functions are read-only and stateless: among any ETL runs
\* and other query calls, a query call runs on the table as it is then,
\* leaves the table and the files unchanged, and what it returns is what
\* its function yields for that table and its own arguments, whatever was
\* called before.
C16_ReadOnlyStateless ==
    /\ [](q_ret \in Outcomes)
    /\ [][QueryStep =>
            /\ q_call'.on = table
            /\ table' = table
            /\ fs_src' = fs_src
            /\ fs_arch' = fs_arch
            /\ archive_dir' = archive_dir]_vars

\* a query that returned rows between two ETL runs, the second of which
\* then replaced the table by a different one
C16_Witness ==
    /\ Returned("top_movies_by_genre")
    /\ runs = 2
    /\ pc = "done"
    /\ Len(q_call.on.rows) = 2
    /\ Len(q_ret.ret) = 1
    /\ table.exists
    /\ table # q_call.on

\* C17: when run_query or save_dataframe_to_sqlite has finished, by
\* returning or by raising, the store connection it opened is closed.
C17_ConnectionClosed == ~conn_open

====
